---- MODULE Spec2Model ----
(***************************************************************************)
(* A model of snorkel/snorkel.py: TrainingSet (LF application and          *)
(* featurization), Learner (joint strategy, test-time cache) and           *)
(* PipelinedLearner (two-stage training).                                  *)
(*                                                                         *)
(* Conventions.  Python None is the empty tuple for sequences (None) and   *)
(* the matrix NoMat for matrices.  Indices are 1-based here and 0-based in *)
(* the source.  A sparse matrix is its layout tag, its shape and the set   *)
(* of its stored (row, column, value) triples; an entry that is not stored *)
(* reads as 0.  Weights and marginals are floats in the source and         *)
(* integers here.                                                          *)
(***************************************************************************)
EXTENDS Integers, Sequences, FiniteSets, TLC

\* Bounds of the model: candidates are 1..NumCand, a test set holds at most
\* MaxTestLen candidates.
NumCand == 3
MaxTestLen == 2

None == <<>>
Some(x) == <<x>>

Min(a, b) == IF a < b THEN a ELSE b
Sign(x) == IF x > 0 THEN 1 ELSE IF x < 0 THEN -1 ELSE 0

RECURSIVE AscSeq(_)
\* The elements of a finite set of integers in ascending order.
AscSeq(S) ==
    IF S = {} THEN <<>>
    ELSE LET mn == CHOOSE x \in S : \A y \in S : x <= y
         IN <<mn>> \o AscSeq(S \ {mn})

(***************************************************************************)
(* Inputs: candidates, labeling functions, gold labels.                    *)
(***************************************************************************)
Cand == 1..NumCand

\* The labeling functions a training set may be given.  LF1 and LF2 are the
\* two LFs of the end-to-end example (LF1 = [+1,-1,0], LF2 = [+1,0,+1] on
\* candidates 1,2,3); LF3 votes -1 and raises on every third candidate.
LfCatalogue == <<"LF1", "LF2", "LF3">>

LFRaises(name, c) == name = "LF3" /\ c % 3 = 0

LFValue(name, c) ==
    CASE name = "LF1" -> (IF c % 3 = 1 THEN 1 ELSE IF c % 3 = 2 THEN -1 ELSE 0)
      [] name = "LF2" -> (IF c % 3 = 2 THEN 0 ELSE 1)
      [] OTHER -> -1

\* The LF lists: the non-empty sublists of the catalogue, in its order.
LfLists ==
    {[i \in 1..Cardinality(S) |-> LfCatalogue[AscSeq(S)[i]]] :
        S \in (SUBSET DOMAIN LfCatalogue) \ {{}}}

\* Training candidate sequences: the prefixes of 1..NumCand.
TrainSeqs == {[i \in 1..n |-> i] : n \in 1..NumCand}

\* Test candidate sequences: the runs a, a+1, ... of 1 to MaxTestLen
\* candidates.
TestSeqs ==
    {[i \in 1..n |-> a + i - 1] :
        <<a, n>> \in {p \in Cand \X (1..MaxTestLen) : p[1] + p[2] - 1 <= NumCand}}

GoldVals == {-1, 1}
\* Gold labels come one per test candidate: all negative, or all negative
\* but one.
GoldFor(c) ==
    {g \in [1..Len(c) -> GoldVals] : Cardinality({i \in 1..Len(c) : g[i] = 1}) <= 1}

\* Initial weights and optimiser outcomes offered to train().
LfW0Vals == {1, 5}
FeatW0Vals == {0}
TrainSteps == {0, 1}

(***************************************************************************)
(* Sparse matrices (scipy.sparse as the source uses it).                   *)
(***************************************************************************)
NoMat == [fmt |-> "none", nrows |-> 0, ncols |-> 0, data |-> {}]

LilMatrix(n, k) == [fmt |-> "lil", nrows |-> n, ncols |-> k, data |-> {}]

Entry(M, i, j) ==
    IF \E t \in M.data : t[1] = i /\ t[2] = j
    THEN (CHOOSE t \in M.data : t[1] = i /\ t[2] = j)[3]
    ELSE 0

\* X[i,j] = v on a lil matrix: a zero is not stored.
SetItem(M, i, j, v) ==
    [M EXCEPT !.data = {t \in @ : ~(t[1] = i /\ t[2] = j)}
                        \cup (IF v = 0 THEN {} ELSE {<<i, j, v>>})]

Tocsr(M) == [M EXCEPT !.fmt = "csr"]
Tocsc(M) == [M EXCEPT !.fmt = "csc"]

\* sparse.hstack([A, B], format='csc'); A and B have the same row count in
\* every call the model makes (both come from one candidate sequence).
Hstack(A, B) ==
    [fmt |-> "csc", nrows |-> A.nrows, ncols |-> A.ncols + B.ncols,
     data |-> A.data \cup {<<t[1], t[2] + A.ncols, t[3]>> : t \in B.data}]

\* Equality of two matrices up to their storage layout.
SameMatrix(A, B) == A.nrows = B.nrows /\ A.ncols = B.ncols /\ A.data = B.data

Rep(v, n) == [i \in 1..n |-> v]

\* Python slice w[a:b], 0-based, clamped to the sequence.
Slice(w, a, b) == SubSeq(w, Min(a, Len(w)) + 1, Min(b, Len(w)))

(***************************************************************************)
(* External collaborators: the featurizer (features.py) and the model      *)
(* (learning.py, LogReg).  Their code is outside the file modelled here;   *)
(* they are modelled from the contracts the specification gives them.      *)
(***************************************************************************)
\* The features a candidate exhibits.
CandFeats(c) == {c, c - 1} \ {0}

\* fit_transform learns the schema: the features seen, in ascending order.
FitVocab(cands) == AscSeq(UNION {CandFeats(cands[i]) : i \in DOMAIN cands})

\* The feature matrix of cands under schema v; a feature outside the schema
\* is dropped.
Featurize(v, cands) ==
    [fmt |-> "csr", nrows |-> Len(cands), ncols |-> Len(v),
     data |-> {<<t[1], t[2], 1>> :
                 t \in {u \in (DOMAIN cands) \X (DOMAIN v) :
                           v[u[2]] \in CandFeats(cands[u[1]])}}]

\* model.train(X, w0=w0, ...): the weight vector keeps the length of w0; the
\* optimiser's outcome is the choice k.
ModelTrain(X, w0, k) == [i \in 1..Len(w0) |-> w0[i] + k * i]

RECURSIVE RowScore(_, _, _, _)
\* The weighted sum of row i of X over columns 1..j.
RowScore(wv, X, i, j) ==
    IF j = 0 THEN 0 ELSE RowScore(wv, X, i, j - 1) + Entry(X, i, j) * wv[j]

\* model.marginals(X): per row, the probability of a positive label, in
\* percent: below, at or above one half by the sign of the weighted sum.
Marginals(wv, X) ==
    [i \in 1..X.nrows |-> 50 + 50 * Sign(RowScore(wv, X, i, X.ncols))]

\* model.predict(X) of the trivial model: the sign of the weighted sum.
Predict(wv, X) == [i \in 1..X.nrows |-> Sign(RowScore(wv, X, i, X.ncols))]

(***************************************************************************)
(* Calls observed at the collaborators' interfaces during one operation.   *)
(***************************************************************************)
Ev(op, X, w0, soft) == [op |-> op, X |-> X, w0 |-> w0, soft |-> soft]
Call(op) == Ev(op, NoMat, <<>>, <<>>)
Ops(tr) == {tr[i].op : i \in DOMAIN tr}

(***************************************************************************)
(* TrainingSet._apply_lfs                                                  *)
(***************************************************************************)
RECURSIVE ApplyLoop(_, _, _, _)
\* The two nested loops, flattened: step k visits candidate k \div m (outer)
\* and LF k % m (inner).  An LF that raises aborts the whole call.
ApplyLoop(fs, cands, k, X) ==
    IF k = Len(cands) * Len(fs)
    THEN [raised |-> FALSE, X |-> Tocsr(X)]
    ELSE LET i == (k \div Len(fs)) + 1
             j == (k % Len(fs)) + 1
         IN IF LFRaises(fs[j], cands[i])
            THEN [raised |-> TRUE, X |-> NoMat]
            ELSE ApplyLoop(fs, cands, k + 1,
                           SetItem(X, i, j, LFValue(fs[j], cands[i])))

\* A faulty _apply_lfs whose inner loop stops one LF short.
ApplyLfsSkipLast(fs, cands) ==
    LET r == ApplyLoop(fs, cands, 0, LilMatrix(Len(cands), Len(fs)))
    IN [r EXCEPT !.X.data = {t \in @ : t[2] # Len(fs)}]

ApplyLfs(fs, cands) == ApplyLoop(fs, cands, 0, LilMatrix(Len(cands), Len(fs)))

(***************************************************************************)
(* State.                                                                  *)
(***************************************************************************)
VARIABLES
    \* TrainingSet
    tsState,              \* "new": constructor about to run; "built"; "failed"
    training_candidates, featurizer, lfs, L, F,
    vocab,                \* the featurizer's fitted schema
    fitCalls,             \* calls of featurizer.fit_transform so far
    ret,                  \* what the last direct transform(C) call returned
    \* Learner
    lrn,                  \* "none", "joint", "pipelined", or "error"
    trained,
    L_train, n_train, m, F_train, f, X_train,
    test_candidates, gold_labels, X_test,
    nTests,               \* test() calls so far, counted up to 2
    w,                    \* model.w
    tm_w,                 \* training_model.w (PipelinedLearner)
    \* the collaborator calls of the last operation, in order
    trace

tsVars == <<tsState, training_candidates, featurizer, lfs, L, F, vocab, fitCalls>>
cacheVars == <<test_candidates, gold_labels, X_test>>
lrnVars == <<lrn, trained, L_train, n_train, m, F_train, f, X_train, cacheVars,
             nTests, w, tm_w>>
vars == <<tsVars, ret, lrnVars, trace>>

Kinds == {"joint", "pipelined"}

Init ==
    /\ tsState = "new"
    /\ training_candidates \in TrainSeqs
    /\ featurizer \in BOOLEAN
    /\ lfs \in LfLists
    /\ L = NoMat /\ F = NoMat
    /\ vocab = <<>>
    /\ fitCalls = 0
    /\ ret = None
    /\ lrn = "none" /\ trained = FALSE
    /\ L_train = NoMat /\ n_train = 0 /\ m = 0
    /\ F_train = NoMat /\ f = 0
    /\ X_train = NoMat
    /\ test_candidates = None /\ gold_labels = None /\ X_test = NoMat
    /\ nTests = 0
    /\ w = <<>> /\ tm_w = <<>>
    /\ trace = <<>>

(***************************************************************************)
(* TrainingSet.transform and the constructor.                              *)
(***************************************************************************)
\* transform(candidates, fit): what it returns (L, F), whether it raised,
\* the featurizer's schema afterwards and the calls it made.
TransformRes(cands, fit) ==
    LET a == ApplyLfs(lfs, cands)
    IN IF a.raised
       THEN [raised |-> TRUE, L |-> NoMat, F |-> NoMat, vocab |-> vocab,
             events |-> <<Call("ts.transform")>>]
       ELSE IF ~featurizer
       THEN [raised |-> FALSE, L |-> a.X, F |-> NoMat, vocab |-> vocab,
             events |-> <<Call("ts.transform")>>]
       ELSE LET v == IF fit THEN FitVocab(cands) ELSE vocab
            IN [raised |-> FALSE, L |-> a.X, F |-> Featurize(v, cands), vocab |-> v,
                events |-> <<Call("ts.transform"),
                             Call(IF fit THEN "featurizer.fit_transform"
                                         ELSE "featurizer.transform")>>]

FitCount(ev) == Cardinality({i \in DOMAIN ev : ev[i].op = "featurizer.fit_transform"})

\* TrainingSet.__init__: the fields are set, then transform(fit=True) runs;
\* if an LF raises no training set comes to exist.
Construct ==
    /\ tsState = "new"
    /\ \E r \in {TransformRes(training_candidates, TRUE)} :
          /\ tsState' = IF r.raised THEN "failed" ELSE "built"
          /\ L' = r.L /\ F' = r.F
          /\ vocab' = r.vocab
          /\ fitCalls' = fitCalls + FitCount(r.events)
          /\ trace' = r.events
    /\ UNCHANGED <<training_candidates, featurizer, lfs, ret, lrnVars>>

\* A faulty transform that keeps its result on the training set.
TransformStoresResult(r) == L' = r.L /\ F' = r.F

\* What transform does to the training set's stored matrices: nothing.
TransformStored(r) == UNCHANGED <<L, F>>

\* A direct call training_set.transform(C) (fit defaults to False).  ret
\* keeps the argument, the returned pair and how many times in a row (up to
\* 2) this argument was passed.
TsTransform(C) ==
    /\ tsState = "built"
    /\ \E r \in {TransformRes(C, FALSE)} :
          /\ ret' = IF r.raised THEN None
                    ELSE Some([C |-> C, L |-> r.L, F |-> r.F,
                               n |-> IF ret # None /\ ret[1].C = C
                                     THEN Min(ret[1].n + 1, 2) ELSE 1])
          /\ TransformStored(r)
          /\ vocab' = r.vocab
          /\ fitCalls' = fitCalls + FitCount(r.events)
          /\ trace' = r.events
    /\ UNCHANGED <<tsState, training_candidates, featurizer, lfs, lrnVars>>

\* The training set on its own: its constructor and direct transform calls.
NextTS == Construct \/ \E C \in TestSeqs : TsTransform(C)

SpecTS == Init /\ [][NextTS]_vars

(***************************************************************************)
(* Learner and PipelinedLearner.                                           *)
(***************************************************************************)
\* A learner without the pipelined override: L and F side by side always.
SetModelXJoint(kind, Lm, Fm) == Hstack(Lm, Fm)

\* _set_model_X(L, F), by the learner's class.
SetModelX(kind, Lm, Fm) ==
    IF kind = "pipelined" THEN Tocsc(Fm) ELSE Hstack(Lm, Fm)

\* Learner.__init__.  With no featurizer the training set's F is None and
\* reading its shape raises: no learner comes to exist.
LearnerInit(kind) ==
    /\ tsState = "built"
    /\ lrn = "none"
    /\ IF F = NoMat
       THEN /\ lrn' = "error"
            /\ UNCHANGED <<L_train, n_train, m, F_train, f>>
       ELSE /\ lrn' = kind
            /\ L_train' = L
            /\ n_train' = L.nrows /\ m' = L.ncols
            /\ F_train' = F
            /\ f' = F.ncols
    /\ X_train' = NoMat
    /\ test_candidates' = None /\ gold_labels' = None /\ X_test' = NoMat
    /\ trace' = <<>>
    /\ UNCHANGED <<tsVars, ret, trained, nTests, w, tm_w>>

\* A faulty train that drops the test cache.
TrainResetsCache == test_candidates' = None /\ gold_labels' = None /\ X_test' = NoMat

\* What train() does to the test cache: nothing.
TrainCacheEffect == UNCHANGED cacheVars

\* w0 of the joint strategy: m copies of lf_w0, then f copies of feat_w0.
JointW0(lf_w0, feat_w0) == Rep(lf_w0, m) \o Rep(feat_w0, f)

\* Learner.train(lf_w0, feat_w0).
Train(lf_w0, feat_w0, k) ==
    /\ lrn = "joint"
    /\ trained' = TRUE
    /\ TrainCacheEffect
    /\ LET w0 == JointW0(lf_w0, feat_w0)
           X == SetModelX(lrn, L_train, F_train)
       IN /\ X_train' = X
          /\ w' = ModelTrain(X, w0, k)
          /\ trace' = <<Ev("call.train", NoMat, <<lf_w0, feat_w0>>, <<>>),
                        Ev("model.train", X, w0, <<>>)>>
    /\ UNCHANGED <<tsVars, ret, lrn, L_train, n_train, m, F_train, f, nTests, tm_w>>

\* A faulty two-stage train that takes the marginals from the training model
\* before training it and trains the primary model first.
PipelinedStagesEarlyMarginals(lf_w0, feat_w0, k1, k2) ==
    LET w0_1 == Rep(lf_w0, m)
        w0_2 == Rep(feat_w0, f)
        marg == Marginals(w0_1, L_train)
        X == SetModelX(lrn, L_train, F_train)
    IN [tm_w |-> ModelTrain(L_train, w0_1, k1), X |-> X,
        w |-> ModelTrain(X, w0_2, k2),
        events |-> <<Ev("call.train", NoMat, <<lf_w0, feat_w0>>, <<>>),
                     Ev("training_model.marginals", L_train, w0_1, <<>>),
                     Ev("model.train", X, w0_2, marg),
                     Ev("training_model.train", L_train, w0_1, <<>>)>>]

\* The stages of PipelinedLearner.train, in the order of the code: the
\* weights each leaves behind and the calls made.  A marginals call is
\* recorded with the weights of the model it was asked of.
PipelinedStages(lf_w0, feat_w0, k1, k2) ==
    LET w0_1 == Rep(lf_w0, m)
        w0_2 == Rep(feat_w0, f)
        tw == ModelTrain(L_train, w0_1, k1)
        marg == Marginals(tw, L_train)
        X == SetModelX(lrn, L_train, F_train)
    IN [tm_w |-> tw, X |-> X,
        w |-> ModelTrain(X, w0_2, k2),
        events |-> <<Ev("call.train", NoMat, <<lf_w0, feat_w0>>, <<>>),
                     Ev("training_model.train", L_train, w0_1, <<>>),
                     Ev("training_model.marginals", L_train, tw, <<>>),
                     Ev("model.train", X, w0_2, marg)>>]

\* PipelinedLearner.train(feat_w0, lf_w0).
PipelinedTrain(feat_w0, lf_w0, k1, k2) ==
    /\ lrn = "pipelined"
    /\ trained' = TRUE
    /\ TrainCacheEffect
    /\ \E s \in {PipelinedStages(lf_w0, feat_w0, k1, k2)} :
          /\ tm_w' = s.tm_w
          /\ X_train' = s.X
          /\ w' = s.w
          /\ trace' = s.events
    /\ UNCHANGED <<tsVars, ret, lrn, L_train, n_train, m, F_train, f, nTests>>

\* A faulty test() that refits the featurizer on the test candidates.
TestFitTrue == TRUE

\* The fit flag test() hands to transform: the default, False.
TestFit == FALSE

\* The cache check of test(), evaluated left to right as `or` does.  The
\* gold labels are compared element by element; they are as long as the
\* candidates, so equal candidates mean equally long gold labels.
CacheMiss(c, g) ==
    \/ X_test = NoMat
    \/ Some(c) # test_candidates
    \/ \E i \in DOMAIN g : g[i] # gold_labels[1][i]

\* Learner.test(test_candidates, gold_labels), inherited by PipelinedLearner.
\* On a miss the two cache keys are assigned before transform runs; if an LF
\* raises, the exception leaves test() with X_test as it was.
Test(c, g) ==
    /\ lrn \in Kinds
    /\ trained
    /\ nTests' = Min(nTests + 1, 2)
    /\ IF CacheMiss(c, g)
       THEN /\ test_candidates' = Some(c)
            /\ gold_labels' = Some(g)
            /\ \E r \in {TransformRes(c, TestFit)} :
                  /\ vocab' = r.vocab
                  /\ fitCalls' = fitCalls + FitCount(r.events)
                  /\ IF r.raised
                     THEN /\ X_test' = X_test
                          /\ trace' = r.events
                     ELSE /\ X_test' = SetModelX(lrn, r.L, r.F)
                          /\ trace' = r.events
                                       \o <<Ev("model.predict", X_test', <<>>, <<>>)>>
       ELSE /\ UNCHANGED <<cacheVars, vocab, fitCalls>>
            /\ trace' = <<Ev("model.predict", X_test, <<>>, <<>>)>>
    /\ UNCHANGED <<tsState, training_candidates, featurizer, lfs, L, F, ret>>
    /\ UNCHANGED <<lrn, trained, L_train, n_train, m, F_train, f, X_train, w, tm_w>>

\* A faulty lf_weights that slices at the feature count.
LfWeightsAtF == IF lrn = "pipelined" THEN tm_w ELSE Slice(w, 0, f)

\* lf_weights(): w[:m], or the training model's weights when pipelined.
LfWeights == IF lrn = "pipelined" THEN tm_w ELSE Slice(w, 0, m)

\* feat_weights(): w[m:], or the primary model's weights when pipelined.
FeatWeights == IF lrn = "pipelined" THEN w ELSE Slice(w, m, Len(w))

\* The training set with one learner over it.  The learner reaches transform
\* through test(); test() is called on a trained learner.
Next ==
    \/ Construct
    \/ \E kind \in Kinds : LearnerInit(kind)
    \/ \E a \in LfW0Vals, b \in FeatW0Vals, k \in TrainSteps : Train(a, b, k)
    \/ \E a \in LfW0Vals, b \in FeatW0Vals, k1 \in TrainSteps, k2 \in TrainSteps :
           PipelinedTrain(b, a, k1, k2)
    \/ \E c \in TestSeqs : \E g \in GoldFor(c) : Test(c, g)

Spec == Init /\ [][Next]_vars

(***************************************************************************)
(* Properties.                                                             *)
(***************************************************************************)
AnyTrainStep ==
    \/ \E a \in LfW0Vals, b \in FeatW0Vals, k \in TrainSteps : Train(a, b, k)
    \/ \E a \in LfW0Vals, b \in FeatW0Vals, k1 \in TrainSteps, k2 \in TrainSteps :
           PipelinedTrain(b, a, k1, k2)

\* C1: a test() call invokes the training set's transform if and only if it
\* is the first call, or its candidates differ from the cached ones, or some
\* element of its gold labels differs from the cached ones; a call that does
\* not transform reuses the cached X_test.  (A call is the first one exactly
\* when no test() call was made before it: nTests = 0.)
C1_TransformIffFirstOrChanged ==
    [][\A c \in TestSeqs : \A g \in GoldFor(c) :
          Test(c, g) =>
            /\ ("ts.transform" \in Ops(trace'))
                 <=> \/ nTests = 0
                     \/ Some(c) # test_candidates
                     \/ \E i \in DOMAIN g : g[i] # gold_labels[1][i]
            /\ "ts.transform" \notin Ops(trace') =>
                 X_test # NoMat /\ X_test' = X_test]_vars

\* M matches the LFs on the candidate sequence C: its shape is
\* (len(C), len(lfs)) and entry (i,j) is lfs[j](C[i]).
MatchesLfs(M, C) ==
    /\ M.nrows = Len(C) /\ M.ncols = Len(lfs)
    /\ \A t \in M.data : t[1] \in 1..M.nrows /\ t[2] \in 1..M.ncols
    /\ \A i \in 1..Len(C) : \A j \in 1..Len(lfs) :
          /\ Entry(M, i, j) = LFValue(lfs[j], C[i])
          /\ Entry(M, i, j) \in {-1, 0, 1}

\* C2: whenever _apply_lfs returns (at construction, and in a later
\* transform), the matrix has shape (len(C), len(lfs)) and its entry (i,j)
\* is lfs[j](C[i]), a value in {-1,0,1}, for every pair (i,j).
C2_ApplyLfsEveryPair ==
    /\ tsState = "built" => MatchesLfs(L, training_candidates)
    /\ ret # None => MatchesLfs(ret[1].L, ret[1].C)

\* A transform of two candidates under at least two LFs was returned, with
\* votes of all three kinds in it.
C2_Witness ==
    /\ ret # None /\ Len(ret[1].C) = 2 /\ Len(lfs) >= 2
    /\ \A v \in {-1, 0, 1} :
          \E i \in 1..2 : \E j \in 1..Len(lfs) : Entry(ret[1].L, i, j) = v

\* C3: for a trained joint learner over m LFs and f features, lf_weights()
\* has length m, feat_weights() has length f, and lf_weights() followed by
\* feat_weights() is the model's weight vector.
C3_JointWeightsSplit ==
    lrn = "joint" /\ trained =>
        /\ m = Len(lfs) /\ f = Len(vocab)
        /\ Len(LfWeights) = m
        /\ Len(FeatWeights) = f
        /\ LfWeights \o FeatWeights = w
        /\ LfWeights = Slice(w, 0, m) /\ FeatWeights = Slice(w, m, Len(w))

\* A trained joint learner with differing LF and feature counts and weights
\* that are not all alike.
C3_Witness ==
    /\ lrn = "joint" /\ trained /\ m # f
    /\ \E i \in DOMAIN w : w[i] # w[1]

\* C4: the training set of candidates 1,2,3 and LFs LF1, LF2 with no
\* featurizer has L = [[1,1],[-1,0],[0,1]]; a joint learner over it can be
\* constructed, and once trained with uniform weights 1 the trivial model's
\* predictions agree, row by row, with the direction of the LF votes.
C4_EndToEndNoFeaturizer ==
    /\ tsState = "built" /\ ~featurizer
    /\ training_candidates = <<1, 2, 3>> /\ lfs = <<"LF1", "LF2">>
    => /\ L.nrows = 3 /\ L.ncols = 2
       /\ L.data = {<<1, 1, 1>>, <<1, 2, 1>>, <<2, 1, -1>>, <<3, 2, 1>>}
       /\ lrn # "error"
       /\ (lrn = "joint" /\ trained /\ w = Rep(1, Len(w))) =>
             \A i \in 1..3 :
                Predict(w, X_train)[i] = Sign(Entry(L, i, 1) + Entry(L, i, 2))

\* C5: a pipelined learner's model input does not depend on L: for every
\* label matrix over the training candidates _set_model_X gives the same
\* matrix, F up to its layout; X_train after train() and X_test after test()
\* hold the feature columns only.
C5_PipelinedInputIgnoresL ==
    lrn = "pipelined" =>
        /\ \A l \in LfLists :
              \A a \in {ApplyLfs(l, training_candidates)} :
                 ~a.raised =>
                    /\ SetModelX(lrn, a.X, F_train) = SetModelX(lrn, L_train, F_train)
                    /\ SameMatrix(SetModelX(lrn, a.X, F_train), F_train)
        /\ trained => SameMatrix(X_train, F_train)
        /\ X_test # NoMat =>
              /\ X_test.ncols = f
              /\ \E c \in TestSeqs : SameMatrix(X_test, Featurize(vocab, c))

\* A trained pipelined learner with votes in L and a cached, non-empty X_test.
C5_Witness ==
    /\ lrn = "pipelined" /\ trained
    /\ L_train.data # {} /\ X_test # NoMat /\ X_test.data # {}

\* C6: a training set built with a featurizer has had fit_transform invoked
\* exactly once, by its constructor, and holds L and F; fit_transform is
\* never invoked again; every transform made for test() calls the
\* featurizer's transform, after that one fit_transform.
C6_FitOnceAtConstruction ==
    /\ fitCalls <= 1
    /\ (tsState = "built" /\ featurizer) =>
          /\ fitCalls = 1
          /\ L # NoMat /\ F # NoMat
          /\ vocab = FitVocab(training_candidates)
          /\ F = Featurize(vocab, training_candidates)
    /\ "featurizer.fit_transform" \in Ops(trace) => lrn = "none" /\ nTests = 0
    /\ "featurizer.transform" \in Ops(trace) =>
          fitCalls = 1 /\ "featurizer.fit_transform" \notin Ops(trace)

\* A test() call has just had the featurizer transform its candidates.
C6_Witness ==
    /\ lrn \in Kinds /\ nTests >= 1
    /\ "featurizer.transform" \in Ops(trace) /\ fitCalls = 1

\* C7: a transform(C) call leaves the training set's L, F, lfs and
\* training_candidates as they were, and returns the (L, F) pair that the
\* call before it returned if that call was given the same C.
C7_TransformIdempotent ==
    [][\A C \in TestSeqs :
          TsTransform(C) =>
            /\ L' = L /\ F' = F /\ lfs' = lfs
            /\ training_candidates' = training_candidates
            /\ (ret # None /\ ret[1].C = C) =>
                  /\ ret' # None
                  /\ ret'[1].L = ret[1].L /\ ret'[1].F = ret[1].F]_vars

\* transform was called twice in a row with the same candidates, with a
\* featurizer, on candidates other than the training candidates.
C7_Witness ==
    /\ ret # None /\ ret[1].n = 2 /\ featurizer
    /\ ret[1].C # training_candidates /\ ret[1].F.data # {}

C9_TrainLeavesCache ==
    [][/\ tsState = "built" => L' = L /\ F' = F
       /\ lrn \in Kinds =>
             /\ L_train' = L_train /\ F_train' = F_train
             /\ L_train = L /\ F_train = F
       /\ cacheVars' # cacheVars =>
             /\ test_candidates' # None /\ gold_labels' # None
             /\ Test(test_candidates'[1], gold_labels'[1])
             /\ ~AnyTrainStep]_vars

\* train() has just run again on a learner that holds a cached X_test.
C9_Witness ==
    /\ trained /\ X_test # NoMat /\ nTests >= 1
    /\ trace # <<>> /\ trace[1].op = "call.train"

\* C10: whenever X_test is not None it is the model input built from the
\* transform (fit=False) of the cached test_candidates.
C10_CacheCoherent ==
    X_test # NoMat =>
        /\ test_candidates # None
        /\ \A r \in {TransformRes(test_candidates[1], FALSE)} :
              ~r.raised /\ X_test = SetModelX(lrn, r.L, r.F)
====
